---- MODULE Spec2Model ----
(***************************************************************************)
(* A model of laba.py: RegexFSM.__init__ compiles a pattern into a graph   *)
(* of State objects, RegexFSM.check_string simulates that graph over an    *)
(* input string with a FIFO worklist of (state, position) pairs.           *)
(*                                                                         *)
(* Characters are Unicode code points, strings are sequences of code       *)
(* points.  Objects live in `heap`, a sequence of records; an object       *)
(* reference is an index into it and None is the null reference.           *)
(***************************************************************************)
EXTENDS Integers, Sequences, FiniteSets, TLC

\* ------------------------------------------------------------------------
\* Bounds of the model
\* ------------------------------------------------------------------------
MaxPatLen == 3      \* longest enumerated pattern
MaxStrLen == 3      \* longest enumerated input string
MaxConcLen == 2     \* longest input string of the two-caller specification
MaxAnyLen == 2      \* longest input string of the any-order specification

\* ------------------------------------------------------------------------
\* Characters and strings
\* ------------------------------------------------------------------------
\* ord() of the characters the model writes down.
CodePoint ==
    [c \in {"a", "b", "c", "d", "e", "h", "i", "m", "o", "u", "w", "x",
            "y", "z", "4", " ", ".", "*", "+", "(", "|", "?", "\\", "é"} |->
        CASE c = "a" -> 97  [] c = "b" -> 98  [] c = "c" -> 99
          [] c = "d" -> 100 [] c = "e" -> 101 [] c = "h" -> 104
          [] c = "i" -> 105 [] c = "m" -> 109 [] c = "o" -> 111
          [] c = "u" -> 117 [] c = "w" -> 119 [] c = "x" -> 120
          [] c = "y" -> 121 [] c = "z" -> 122 [] c = "4" -> 52
          [] c = " " -> 32  [] c = "." -> 46  [] c = "*" -> 42
          [] c = "+" -> 43  [] c = "(" -> 40  [] c = "|" -> 124
          [] c = "?" -> 63  [] c = "\\" -> 92 [] c = "é" -> 233]

\* The string whose characters are the one-character strings of cs.
Str(cs) == [k \in 1..Len(cs) |-> CodePoint[cs[k]]]

\* All sequences over S of length at most n.
SeqsUpTo(S, n) == UNION {[1..k -> S] : k \in 0..n}

DotChar == CodePoint["."]
StarChar == CodePoint["*"]
PlusChar == CodePoint["+"]

\* str.isascii() of a one-character string: code point in U+0000..U+007F.
isascii_latin1(token) == token < 256
isascii(token) == token < 128

\* ------------------------------------------------------------------------
\* State objects
\* ------------------------------------------------------------------------
None == 0

StartState ==
    [kind |-> "StartState", curr_sym |-> 0, checking_state |-> None,
     next_states |-> <<>>]
TerminationState ==
    [kind |-> "TerminationState", curr_sym |-> 0, checking_state |-> None,
     next_states |-> <<>>]
DotState ==
    [kind |-> "DotState", curr_sym |-> 0, checking_state |-> None,
     next_states |-> <<>>]
AsciiState(symbol) ==
    [kind |-> "AsciiState", curr_sym |-> symbol, checking_state |-> None,
     next_states |-> <<>>]
StarState(checking_state) ==
    [kind |-> "StarState", curr_sym |-> 0, checking_state |-> checking_state,
     next_states |-> <<>>]
PlusState(checking_state) ==
    [kind |-> "PlusState", curr_sym |-> 0, checking_state |-> checking_state,
     next_states |-> <<>>]

\* check_self of the object s of heap h on character char.
RECURSIVE check_self(_, _, _)
check_self(h, s, char) ==
    CASE h[s].kind = "StartState" -> TRUE
      [] h[s].kind = "TerminationState" -> FALSE
      [] h[s].kind = "DotState" -> TRUE
      [] h[s].kind = "AsciiState" -> char = h[s].curr_sym
      [] h[s].kind = "StarState" -> check_self(h, h[s].checking_state, char)
      [] h[s].kind = "PlusState" -> check_self(h, h[s].checking_state, char)

\* s.next_states.append(t)
AppendNext(h, s, t) ==
    [h EXCEPT ![s].next_states = Append(@, t)]

\* s.next_states.append(t) where the last entry should be overwritten.
SetLastNext_append(h, s, t) ==
    [h EXCEPT ![s].next_states = Append(@, t)]

\* s.next_states[-1] = t   (s.next_states is not empty)
SetLastNext(h, s, t) ==
    [h EXCEPT ![s].next_states = [@ EXCEPT ![Len(@)] = t]]

\* ------------------------------------------------------------------------
\* Variables
\* ------------------------------------------------------------------------
VARIABLES
    regex_expr,      \* the pattern handed to RegexFSM.__init__
    i,               \* index of the next pattern character (0-based)
    heap,            \* the State objects created so far
    start_state,     \* self.start_state
    terminal_state,  \* self.terminal_state
    states,          \* self.states
    prev_state,      \* local prev_state of __init__
    tmp_next_state,  \* local tmp_next_state of __init__
    cpc,             \* __init__: "loop", "done" (returned) or "raised"
    error,           \* the exception __init__ raised, if any
    calls            \* the check_string activations, one per caller;
                     \* history logs every pair appended to
                     \* current_positions since the call began

compiler == <<regex_expr, i, heap, start_state, terminal_state, states,
              prev_state, tmp_next_state, cpc, error>>
vars == <<regex_expr, i, heap, start_state, terminal_state, states,
          prev_state, tmp_next_state, cpc, error, calls>>

NoError == [exc |-> "none", msg |-> "", token |-> 0]
ValueError(msg, token) == [exc |-> "ValueError", msg |-> msg, token |-> token]

IdleCall ==
    [pc |-> "idle", input_string |-> <<>>, current_positions |-> <<>>,
     result |-> FALSE, history |-> <<>>]

\* ------------------------------------------------------------------------
\* Inputs
\* ------------------------------------------------------------------------
PatternAlphabet == {CodePoint[c] : c \in {"a", "b", ".", "*", "+", "(", "é"}}
InputAlphabet == {CodePoint[c] : c \in {"a", "b"}}

DemoPattern == Str(<<"a", "*", "4", ".", "+", "h", "i">>)
SamplePatterns ==
    { DemoPattern,
      Str(<<"a", "b", "*", "c">>),
      Str(<<"*", "a", "b", "c">>),
      Str(<<"+", "x">>),
      Str(<<"a", "|", "b">>),
      Str(<<"a", "?">>),
      Str(<<"\\", ".">>) }
SampleInputs ==
    { Str(<<"a", "a", "a", "a", "a", "a", "4", "u", "h", "i">>),
      Str(<<"4", "u", "h", "i">>),
      Str(<<"m", "e", "o", "w">>),
      Str(<<"a", "c">>),
      Str(<<"a", "b", "c">>),
      Str(<<"a", "b", "b", "b", "c">>),
      Str(<<"a", "c", " ", "d">>),
      Str(<<"b", "c">>),
      Str(<<"x", "y", "z">>) }

Patterns == SeqsUpTo(PatternAlphabet, MaxPatLen) \cup SamplePatterns
Inputs == SeqsUpTo(InputAlphabet, MaxStrLen) \cup SampleInputs

ConcPatterns ==
    { Str(<<"a", "*">>), Str(<<"a", "+", "b">>), Str(<<"a", "*", "*">>),
      Str(<<"a", "b", "*", "c">>), Str(<<".", "a">>) }
ConcInputs == SeqsUpTo(InputAlphabet, MaxConcLen)

\* The patterns of the fair specification: one literal, '.', and both
\* quantifiers in every arrangement.
LivePatterns ==
    SeqsUpTo({CodePoint[c] : c \in {"a", ".", "*", "+"}}, MaxPatLen)
LiveInputs == SeqsUpTo(InputAlphabet, MaxStrLen)

AnyPatterns ==
    { Str(<<"a", "*">>), Str(<<"a", "+", "b">>), Str(<<"a", "*", "b">>),
      Str(<<"a", "b", "*", "c">>), Str(<<".", "a">>), Str(<<"a", "+", "*">>),
      Str(<<".", "*", "+">>) }
AnyInputs == SeqsUpTo(InputAlphabet, MaxAnyLen)

\* ------------------------------------------------------------------------
\* RegexFSM.__init__
\* ------------------------------------------------------------------------
\* The state at the head of the while loop, first time round.
InitWith(patterns, callers) ==
    /\ regex_expr \in patterns
    /\ i = 0
    /\ heap = <<StartState, TerminationState>>
    /\ start_state = 1
    /\ terminal_state = 2
    /\ states = <<1>>
    /\ prev_state = 1
    /\ tmp_next_state = None
    /\ cpc = "loop"
    /\ error = NoError
    /\ calls = [c \in callers |-> IdleCall]

Init == InitWith(Patterns, {1})

char == regex_expr[i + 1]

Raise(e) ==
    /\ cpc' = "raised"
    /\ error' = e
    /\ UNCHANGED <<regex_expr, i, heap, start_state, terminal_state, states,
                   prev_state, tmp_next_state, calls>>

\* The '*' branch with an edge from the wrapped state back to the StarState.
WrapStar_backEdge ==
    LET star_state == Len(heap) + 1
        h1 == Append(heap, StarState(tmp_next_state))
        h2 == SetLastNext(h1, prev_state, star_state)
        h3 == AppendNext(h2, star_state, tmp_next_state)
        h4 == AppendNext(h3, star_state, star_state)
        h5 == AppendNext(h4, tmp_next_state, star_state)
    IN  /\ heap' = h5
        /\ tmp_next_state' = star_state
        /\ states' = Append(states, star_state)
        /\ i' = i + 1
        /\ UNCHANGED <<regex_expr, start_state, terminal_state, prev_state,
                       cpc, error, calls>>

\* The '*' branch once tmp_next_state is known not to be None.
WrapStar ==
    LET star_state == Len(heap) + 1
        h1 == Append(heap, StarState(tmp_next_state))
        h2 == SetLastNext(h1, prev_state, star_state)
        h3 == AppendNext(h2, star_state, tmp_next_state)
        h4 == AppendNext(h3, star_state, star_state)
    IN  /\ heap' = h4
        /\ tmp_next_state' = star_state
        /\ states' = Append(states, star_state)
        /\ i' = i + 1
        /\ UNCHANGED <<regex_expr, start_state, terminal_state, prev_state,
                       cpc, error, calls>>

\* The '+' branch without the self-loop on the wrapped atom.
WrapPlus_noLoop ==
    LET plus_state == Len(heap) + 1
        h1 == Append(heap, PlusState(tmp_next_state))
        h2 == SetLastNext(h1, prev_state, plus_state)
        h3 == AppendNext(h2, plus_state, tmp_next_state)
    IN  /\ heap' = h3
        /\ states' = Append(states, plus_state)
        /\ i' = i + 1
        /\ UNCHANGED <<regex_expr, start_state, terminal_state, prev_state,
                       tmp_next_state, cpc, error, calls>>

\* The '+' branch once tmp_next_state is known not to be None.
WrapPlus ==
    LET plus_state == Len(heap) + 1
        h1 == Append(heap, PlusState(tmp_next_state))
        h2 == SetLastNext(h1, prev_state, plus_state)
        h3 == AppendNext(h2, plus_state, tmp_next_state)
        h4 == AppendNext(h3, tmp_next_state, tmp_next_state)
    IN  /\ heap' = h4
        /\ states' = Append(states, plus_state)
        /\ i' = i + 1
        /\ UNCHANGED <<regex_expr, start_state, terminal_state, prev_state,
                       tmp_next_state, cpc, error, calls>>

SkipToken ==
    /\ i' = i + 1
    /\ UNCHANGED <<regex_expr, heap, start_state, terminal_state, states,
                   prev_state, tmp_next_state, cpc, error, calls>>

CompileStar_skipLeading ==
    /\ cpc = "loop"
    /\ i < Len(regex_expr)
    /\ char = StarChar
    /\ IF tmp_next_state = None THEN SkipToken ELSE WrapStar

CompileStar ==
    /\ cpc = "loop"
    /\ i < Len(regex_expr)
    /\ char = StarChar
    /\ IF tmp_next_state = None
       THEN Raise(ValueError("* cannot be the first character", char))
       ELSE WrapStar

CompilePlus ==
    /\ cpc = "loop"
    /\ i < Len(regex_expr)
    /\ char = PlusChar
    /\ IF tmp_next_state = None
       THEN Raise(ValueError("+ cannot be the first character", char))
       ELSE WrapPlus

\* __init_next_state: the object to create for token, or the exception.
init_next_state_noDot(token) ==
    IF isascii(token) THEN [ok |-> TRUE, state |-> AsciiState(token)]
    ELSE [ok |-> FALSE, state |-> StartState]

init_next_state(token) ==
    IF token = DotChar THEN [ok |-> TRUE, state |-> DotState]
    ELSE IF isascii(token) THEN [ok |-> TRUE, state |-> AsciiState(token)]
    ELSE [ok |-> FALSE, state |-> StartState]

CompileAtom ==
    /\ cpc = "loop"
    /\ i < Len(regex_expr)
    /\ char # StarChar
    /\ char # PlusChar
    /\ LET made == init_next_state(char)
           new_state == Len(heap) + 1
           h1 == Append(heap, made.state)
       IN  IF ~made.ok
           THEN Raise(ValueError("Unsupported token: ", char))
           ELSE /\ heap' = IF tmp_next_state # None
                           THEN AppendNext(h1, tmp_next_state, new_state)
                           ELSE AppendNext(h1, prev_state, new_state)
                /\ tmp_next_state' = new_state
                /\ states' = Append(states, new_state)
                /\ i' = i + 1
                /\ UNCHANGED <<regex_expr, start_state, terminal_state,
                               prev_state, cpc, error, calls>>

\* The loop has ended: attach the terminal state and return.
CompileEnd ==
    /\ cpc = "loop"
    /\ i >= Len(regex_expr)
    /\ heap' = IF tmp_next_state # None
               THEN AppendNext(heap, tmp_next_state, terminal_state)
               ELSE AppendNext(heap, start_state, terminal_state)
    /\ cpc' = "done"
    /\ UNCHANGED <<regex_expr, i, start_state, terminal_state, states,
                   prev_state, tmp_next_state, error, calls>>

Compile == CompileStar \/ CompilePlus \/ CompileAtom \/ CompileEnd

\* ------------------------------------------------------------------------
\* RegexFSM.check_string
\* ------------------------------------------------------------------------
isStarState(h, s) == h[s].kind = "StarState"

InSeq(x, seq) == \E k \in 1..Len(seq) : seq[k] = x

RECURSIVE ConcatAll(_)
ConcatAll(seqs) ==
    IF seqs = <<>> THEN <<>> ELSE Head(seqs) \o ConcatAll(Tail(seqs))

\* pos == string_len: does the pair (state, pos) make check_string return
\* True?
AcceptsAtEnd_directOnly(h, state) ==
    InSeq(terminal_state, h[state].next_states)

AcceptsAtEnd(h, state) ==
    \/ InSeq(terminal_state, h[state].next_states)
    \/ \E k \in 1..Len(h[state].next_states) :
          LET next_state == h[state].next_states[k]
          IN  /\ isStarState(h, next_state)
              /\ InSeq(terminal_state, h[next_state].next_states)

\* What one pass of the inner for loop appends for the successor next_state.
Enqueued(h, next_state, pos, ch) ==
    LET ns == h[next_state].next_states
        others == SelectSeq(ns, LAMBDA s : s # next_state)
    IN  (IF check_self(h, next_state, ch)
         THEN << <<next_state, pos + 1>> >> ELSE <<>>)
        \o (IF isStarState(h, next_state)
            THEN [k \in 1..Len(others) |-> <<others[k], pos>>]
            ELSE <<>>)

\* Everything the for loop over state.next_states appends, in order.
Expansion(h, state, pos, ch) ==
    LET ns == h[state].next_states
    IN  ConcatAll([k \in 1..Len(ns) |-> Enqueued(h, ns[k], pos, ch)])

\* A caller enters check_string and starts at position 1.
Call_fromOne(c, inputs) ==
    /\ cpc = "done"
    /\ calls[c].pc \in {"idle", "returned"}
    /\ \E s \in inputs :
          calls' = [calls EXCEPT ![c] =
                       [pc |-> "loop", input_string |-> s,
                        current_positions |-> << <<start_state, 1>> >>,
                        result |-> FALSE,
                        history |-> << <<start_state, 1>> >>]]
    /\ UNCHANGED compiler

\* A caller enters check_string with some input string.
Call(c, inputs) ==
    /\ cpc = "done"
    /\ calls[c].pc \in {"idle", "returned"}
    /\ \E s \in inputs :
          calls' = [calls EXCEPT ![c] =
                       [pc |-> "loop", input_string |-> s,
                        current_positions |-> << <<start_state, 0>> >>,
                        result |-> FALSE,
                        history |-> << <<start_state, 0>> >>]]
    /\ UNCHANGED compiler

\* seq.pop(k - 1): what is left of seq.
Remove(seq, k) == SubSeq(seq, 1, k - 1) \o SubSeq(seq, k + 1, Len(seq))

\* The popped pair is at the end of the input and does not accept: it is
\* put back at the end of the worklist.
Continue_requeue(c, rest) ==
    calls' = [calls EXCEPT ![c].current_positions =
                 Append(rest, Head(calls[c].current_positions))]

\* The popped pair is at the end of the input and does not accept: the
\* call gives up.
Continue_giveUp(c, rest) ==
    calls' = [calls EXCEPT ![c].pc = "returned",
                           ![c].current_positions = rest,
                           ![c].result = FALSE]

\* `continue`: the popped pair is at the end of the input and does not
\* accept; the loop goes on with the rest of the worklist.
Continue(c, rest) ==
    calls' = [calls EXCEPT ![c].current_positions = rest]

\* What one iteration of the while loop does to the caller's activation when
\* it takes the k-th pending pair.
IterateAt(c, k) ==
    LET me == calls[c]
        state == me.current_positions[k][1]
        pos == me.current_positions[k][2]
        rest == Remove(me.current_positions, k)
        string_len == Len(me.input_string)
    IN  /\ me.pc = "loop"
        /\ me.current_positions # <<>>
        /\ IF pos = string_len
           THEN IF AcceptsAtEnd(heap, state)
                THEN calls' = [calls EXCEPT ![c].pc = "returned",
                                            ![c].current_positions = rest,
                                            ![c].result = TRUE]
                ELSE Continue(c, rest)
           ELSE LET added == Expansion(heap, state, pos,
                                       me.input_string[pos + 1])
                IN  calls' = [calls EXCEPT
                                 ![c].current_positions = rest \o added,
                                 ![c].history = @ \o added]

\* What one iteration of the while loop does to the caller's activation:
\* current_positions.pop(0) takes the first pending pair.
IterateCall(c) == IterateAt(c, 1)

\* One iteration of the while loop, with the automaton's self-loop edge
\* removed from the popped state instead of being skipped over.
Iterate_dropSelfLoop(c) ==
    /\ IterateCall(c)
    /\ heap' = [heap EXCEPT ![Head(calls[c].current_positions)[1]].next_states
                    = SelectSeq(@, LAMBDA s :
                          s # Head(calls[c].current_positions)[1])]
    /\ UNCHANGED <<regex_expr, i, start_state, terminal_state, states,
                   prev_state, tmp_next_state, cpc, error>>

\* One iteration of the while loop.
Iterate(c) ==
    /\ IterateCall(c)
    /\ UNCHANGED compiler

\* The worklist is empty: return False.
ReturnFalse(c) ==
    /\ calls[c].pc = "loop"
    /\ calls[c].current_positions = <<>>
    /\ calls' = [calls EXCEPT ![c].pc = "returned", ![c].result = FALSE]
    /\ UNCHANGED compiler

Match(inputs) ==
    \E c \in DOMAIN calls : Call(c, inputs) \/ Iterate(c) \/ ReturnFalse(c)

Next == Compile \/ Match(Inputs)
Spec == Init /\ [][Next]_vars

\* One call of check_string per automaton, with the while loop and the
\* return scheduled fairly: a call that has begun keeps running.
NextLive ==
    \/ Compile
    \/ calls[1].pc = "idle" /\ Call(1, LiveInputs)
    \/ Iterate(1)
    \/ ReturnFalse(1)
InitLive == InitWith(LivePatterns, {1})
SpecLive ==
    /\ InitLive
    /\ [][NextLive]_vars
    /\ WF_vars(Iterate(1))
    /\ WF_vars(ReturnFalse(1))

\* Two callers share one automaton and interleave their loop iterations.
InitConc == InitWith(ConcPatterns, {1, 2})
NextConc == Compile \/ Match(ConcInputs)
SpecConc == InitConc /\ [][NextConc]_vars

\* One iteration of the while loop that takes any pending pair instead of
\* the first.
IterateAny(c) ==
    /\ \E k \in 1..Len(calls[c].current_positions) : IterateAt(c, k)
    /\ UNCHANGED compiler

\* Caller 1 runs check_string once, as written; caller 2 then runs it on
\* the same input string with pairs taken from the worklist in any order.
NextAny ==
    \/ Compile
    \/ calls[1].pc = "idle" /\ Call(1, AnyInputs)
    \/ calls[1].pc = "returned" /\ Call(2, {calls[1].input_string})
    \/ \E c \in DOMAIN calls : ReturnFalse(c)
    \/ Iterate(1)
    \/ IterateAny(2)
InitAny == InitWith(AnyPatterns, {1, 2})
SpecAny == InitAny /\ [][NextAny]_vars

\* ------------------------------------------------------------------------
\* The pattern language, stated independently of the compiler
\* ------------------------------------------------------------------------
Returned(c) == calls[c].pc = "returned"
Result(c) == calls[c].result
Input(c) == calls[c].input_string
NeverCalled == \A c \in DOMAIN calls : calls[c] = IdleCall

IsQuantifier(ch) == ch \in {StarChar, PlusChar}
NonAscii(ch) == ch > 127
Reserved == {CodePoint[c] : c \in {"(", "|", "?", "\\"}}
\* An ASCII character that is neither '.', nor a quantifier.
IsLiteral(ch) == ~NonAscii(ch) /\ ch # DotChar /\ ~IsQuantifier(ch)
IsAtom(ch) == IsLiteral(ch) \/ ch = DotChar
\* Does the atom x match the character ch?
AtomAccepts(x, ch) == x = DotChar \/ x = ch

\* The items of a pattern: its atoms, each with the quantifier applied to it.
RECURSIVE Items(_)
Items(p) ==
    IF p = <<>> THEN <<>>
    ELSE LET init == Items(SubSeq(p, 1, Len(p) - 1))
             last == p[Len(p)]
         IN  IF last = StarChar
             THEN [init EXCEPT ![Len(init)].min = 0, ![Len(init)].rep = TRUE]
             ELSE IF last = PlusChar
             THEN [init EXCEPT ![Len(init)].rep = TRUE]
             ELSE Append(init, [atom |-> last, min |-> 1, rep |-> FALSE])

\* Do items k.. match s from index q on?  entered: item k has already
\* consumed a character.
RECURSIVE RefMatchFrom(_, _, _, _, _)
RefMatchFrom(items, k, s, q, entered) ==
    IF k > Len(items) THEN q = Len(s) + 1
    ELSE \/ /\ entered \/ items[k].min = 0
            /\ RefMatchFrom(items, k + 1, s, q, FALSE)
         \/ /\ q <= Len(s)
            /\ AtomAccepts(items[k].atom, s[q])
            /\ IF items[k].rep
               THEN RefMatchFrom(items, k, s, q + 1, TRUE)
               ELSE RefMatchFrom(items, k + 1, s, q + 1, FALSE)

RefMatch(p, s) == RefMatchFrom(Items(p), 1, s, 1, FALSE)

\* ------------------------------------------------------------------------
\* Properties
\* ------------------------------------------------------------------------

\* C1: for a pattern over literals, '.', '*' and '+' that compiles,
\* check_string returns true exactly when the whole input is matched by the
\* pattern (literal, any-character, zero-or-more, one-or-more, concatenated).
C1_FullMatch ==
    \A c \in DOMAIN calls :
        (/\ Returned(c)
         /\ \A k \in 1..Len(regex_expr) :
               /\ IsAtom(regex_expr[k]) \/ IsQuantifier(regex_expr[k])
               /\ regex_expr[k] \notin Reserved)
        => Result(c) = RefMatch(regex_expr, Input(c))

\* p is p1 x* p2 with p1 of n >= 1 atoms, p2 of atoms only.
MidStarShape(p, n) ==
    /\ n >= 1
    /\ Len(p) >= n + 2
    /\ p[n + 2] = StarChar
    /\ \A k \in (1..Len(p)) \ {n + 2} : IsAtom(p[k]) /\ p[k] \notin Reserved

\* s is a match of p1, then m characters accepted by x, then a match of p2.
MidStarMatch(p, n, s) ==
    \E m \in 0..Len(s) :
        /\ Len(s) = n + m + (Len(p) - n - 2)
        /\ \A k \in 1..n : AtomAccepts(p[k], s[k])
        /\ \A k \in (n + 1)..(n + m) : AtomAccepts(p[n + 1], s[k])
        /\ \A j \in 1..(Len(p) - n - 2) :
              AtomAccepts(p[n + 2 + j], s[n + m + j])

\* C2: `ab*c` accepts "ac", "abc", "abbbc" and rejects "ac d", "bc", "xyz";
\* in general a pattern p1 x* p2 with a non-empty prefix p1 accepts exactly a
\* match of p1, then zero or more characters accepted by x, then a match of
\* p2.
C2_MidPatternStar ==
    \A c \in DOMAIN calls :
        Returned(c) =>
            /\ regex_expr = Str(<<"a", "b", "*", "c">>) =>
                  /\ Input(c) \in {Str(<<"a", "c">>), Str(<<"a", "b", "c">>),
                                   Str(<<"a", "b", "b", "b", "c">>)}
                        => Result(c)
                  /\ Input(c) \in {Str(<<"a", "c", " ", "d">>),
                                   Str(<<"b", "c">>), Str(<<"x", "y", "z">>)}
                        => ~Result(c)
            /\ \A n \in 1..Len(regex_expr) :
                  MidStarShape(regex_expr, n)
                     => Result(c) = MidStarMatch(regex_expr, n, Input(c))

\* The pattern is the literal regex_expr[1] followed by the quantifier q.
LiteralThen(q) ==
    /\ Len(regex_expr) = 2
    /\ IsLiteral(regex_expr[1])
    /\ regex_expr[2] = q

AllAre(s, ch) == \A k \in 1..Len(s) : s[k] = ch

\* C3: the pattern `c+`, c a literal, rejects the empty string, accepts
\* every string of one or more c and rejects every string with another
\* character.
C3_OneOrMore ==
    \A c \in DOMAIN calls :
        Returned(c) /\ LiteralThen(PlusChar)
        => Result(c) = (Len(Input(c)) >= 1 /\ AllAre(Input(c), regex_expr[1]))

\* C4: the pattern `c*`, c a literal, accepts the empty string and every
\* string consisting only of c, and rejects every string with another
\* character.
C4_ZeroOrMore ==
    \A c \in DOMAIN calls :
        Returned(c) /\ LiteralThen(StarChar)
        => Result(c) = AllAre(Input(c), regex_expr[1])

C4_Witness ==
    /\ LiteralThen(StarChar)
    /\ Returned(1)
    /\ Len(Input(1)) = 2
    /\ Result(1)

\* C5: a pattern of ASCII literals and '.' only accepts exactly the inputs
\* of the same length that agree with it at every index where the pattern
\* is not '.'; the empty pattern accepts only the empty string.
C5_NoQuantifiers ==
    \A c \in DOMAIN calls :
        Returned(c) /\ (\A k \in 1..Len(regex_expr) : IsAtom(regex_expr[k]))
        => Result(c) =
              (/\ Len(Input(c)) = Len(regex_expr)
               /\ \A k \in 1..Len(regex_expr) :
                     regex_expr[k] = DotChar \/ regex_expr[k] = Input(c)[k])

C5_Witness ==
    /\ Len(regex_expr) = 2
    /\ regex_expr[1] = DotChar
    /\ IsLiteral(regex_expr[2])
    /\ Returned(1)
    /\ Result(1)

\* C6: the automaton of `a*4.+hi` accepts "aaaaaa4uhi" and "4uhi" and
\* rejects "meow".
C6_Demo ==
    \A c \in DOMAIN calls :
        Returned(c) /\ regex_expr = DemoPattern =>
            /\ Input(c) = Str(<<"a", "a", "a", "a", "a", "a", "4", "u", "h",
                                "i">>) => Result(c)
            /\ Input(c) = Str(<<"4", "u", "h", "i">>) => Result(c)
            /\ Input(c) = Str(<<"m", "e", "o", "w">>) => ~Result(c)

C6_Witness ==
    /\ regex_expr = DemoPattern
    /\ Returned(1)
    /\ Input(1) = Str(<<"a", "a", "a", "a", "a", "a", "4", "u", "h", "i">>)
    /\ Result(1)

LeadingQuantifierError(q) ==
    IF q = StarChar
    THEN ValueError("* cannot be the first character", q)
    ELSE ValueError("+ cannot be the first character", q)

\* C7: a pattern whose first character is '*' or '+' never gets past that
\* character: compilation raises the leading-quantifier error, whatever
\* follows, and no automaton is ever returned or matched against.
C7_LeadingQuantifier ==
    (Len(regex_expr) >= 1 /\ IsQuantifier(regex_expr[1])) =>
        /\ cpc # "done"
        /\ cpc = "loop" => i = 0
        /\ cpc = "raised" => error = LeadingQuantifierError(regex_expr[1])
        /\ NeverCalled

C7_Witness ==
    /\ Len(regex_expr) >= 2
    /\ regex_expr[1] = StarChar
    /\ NonAscii(regex_expr[2])
    /\ cpc = "raised"

HasNonAscii(p) == \E k \in 1..Len(p) : NonAscii(p[k])
FirstNonAscii(p) ==
    CHOOSE k \in 1..Len(p) :
        NonAscii(p[k]) /\ \A j \in 1..(k - 1) : ~NonAscii(p[j])

\* C8: a pattern with a non-ASCII character anywhere never compiles: the
\* compiler never gets past the first such character, ends in an error,
\* and, unless the pattern starts with a quantifier, the error is the
\* unsupported-token error naming that character.
C8_NonAscii ==
    HasNonAscii(regex_expr) =>
        /\ cpc # "done"
        /\ cpc = "loop" => i < FirstNonAscii(regex_expr)
        /\ cpc = "raised" =>
              /\ error.exc = "ValueError"
              /\ ~IsQuantifier(regex_expr[1]) =>
                    error = ValueError("Unsupported token: ",
                                       regex_expr[FirstNonAscii(regex_expr)])
        /\ NeverCalled

C8_Witness ==
    /\ HasNonAscii(regex_expr)
    /\ FirstNonAscii(regex_expr) = 3
    /\ regex_expr[2] = StarChar
    /\ cpc = "raised"
    /\ error.token = regex_expr[3]

\* C9: a pattern containing a reserved metacharacter ('(', '|', '?', '\')
\* never compiles into an automaton; compilation ends in the
\* unsupported-token error.
C9_ReservedRejected ==
    (\E k \in 1..Len(regex_expr) : regex_expr[k] \in Reserved) =>
        /\ cpc # "done"
        /\ cpc = "raised" => error.exc = "ValueError"

\* C10: once compilation has returned, no step (of any caller, in any
\* interleaving) changes start_state, terminal_state, the states list or any
\* next_states list, and two calls with the same input return the same
\* boolean.
C10_AutomatonFrozen ==
    /\ [][cpc = "done" =>
            <<start_state, terminal_state, states, heap>>'
                = <<start_state, terminal_state, states, heap>>]_vars
    /\ [](\A c1, c2 \in DOMAIN calls :
            (Returned(c1) /\ Returned(c2) /\ Input(c1) = Input(c2))
            => Result(c1) = Result(c2))

C10_Witness ==
    /\ Returned(1)
    /\ Len(Input(1)) = 2
    /\ Result(1)
    /\ calls[2].pc = "loop"
    /\ Input(2) = Input(1)
    /\ Len(calls[2].current_positions) >= 2

\* C11: every call of check_string on a compiled automaton (patterns with
\* consecutive quantifiers included) ends: the loop returns true, or the
\* worklist empties and it returns false.
C11_Terminates ==
    \A c \in {1} : (calls[c].pc = "loop") ~> (calls[c].pc = "returned")

C11_Witness ==
    /\ Len(regex_expr) = 3
    /\ IsLiteral(regex_expr[1])
    /\ IsQuantifier(regex_expr[2])
    /\ IsQuantifier(regex_expr[3])
    /\ Returned(1)
    /\ Len(Input(1)) = MaxStrLen
    /\ ~Result(1)
    /\ calls[1].current_positions = <<>>

\* C12: check_string never raises: every pair on the worklist refers to a
\* State object and has 0 <= pos <= len(input), so input_string[pos] is only
\* read with pos < len(input), and a call that ends ends with a boolean.
C12_NeverErrors ==
    \A c \in DOMAIN calls :
        /\ \A k \in 1..Len(calls[c].current_positions) :
              /\ calls[c].current_positions[k][1] \in 1..Len(heap)
              /\ calls[c].current_positions[k][2] >= 0
              /\ calls[c].current_positions[k][2] <= Len(Input(c))
        /\ Returned(c) => Result(c) \in BOOLEAN

C12_Witness ==
    /\ calls[1].pc = "loop"
    /\ Len(calls[1].current_positions) >= 2
    /\ Len(Input(1)) >= 1
    /\ Head(calls[1].current_positions)[2] = Len(Input(1))

\* The successors of s and everything reachable from the states of S.
Succs(h, s) == {h[s].next_states[k] : k \in 1..Len(h[s].next_states)}

RECURSIVE ReachFrom(_, _)
ReachFrom(h, S) ==
    LET S2 == S \cup UNION {Succs(h, s) : s \in S}
    IN  IF S2 = S THEN S ELSE ReachFrom(h, S2)

\* C13: after a successful compilation every state of self.states other
\* than start_state, and terminal_state, is reachable from start_state
\* along next_states edges.
C13_AllReachable ==
    cpc = "done" =>
        /\ \A k \in 2..Len(states) :
              states[k] \in ReachFrom(heap, {start_state})
        /\ terminal_state \in ReachFrom(heap, {start_state})

\* C14: a '*' or '+' token overwrites no edge-list entry that existed
\* before it other than one that referenced the last atom (the state the
\* previous token created); in particular it leaves start_state's edges
\* alone when the last atom is not a direct successor of start_state.
C14_SpliceOnlyLastAtom ==
    [][(cpc = "loop" /\ i < Len(regex_expr) /\ IsQuantifier(char)
        /\ tmp_next_state # None)
       => \A s \in 1..Len(heap) : \A k \in 1..Len(heap[s].next_states) :
             heap'[s].next_states[k] # heap[s].next_states[k]
             => heap[s].next_states[k] = states[Len(states)]]_vars

\* C15: for distinct literals c and d the pattern `c*d` accepts exactly the
\* strings c^n d, n >= 0: it accepts "d" and rejects the empty string and
\* every string that does not end in the one d.
C15_StarThenAtom ==
    \A c \in DOMAIN calls :
        (/\ Returned(c)
         /\ Len(regex_expr) = 3
         /\ IsLiteral(regex_expr[1]) /\ regex_expr[1] \notin Reserved
         /\ regex_expr[2] = StarChar
         /\ IsLiteral(regex_expr[3]) /\ regex_expr[3] \notin Reserved
         /\ regex_expr[1] # regex_expr[3])
        => Result(c) =
              (/\ Len(Input(c)) >= 1
               /\ Input(c)[Len(Input(c))] = regex_expr[3]
               /\ \A k \in 1..(Len(Input(c)) - 1) :
                     Input(c)[k] = regex_expr[1])

\* s lies on a cycle that passes through another state.
OnProperCycle(h, s) ==
    \E t \in Succs(h, s) \ {s} : s \in ReachFrom(h, {t})

C17_NoRepeatedPair ==
    \A c \in DOMAIN calls :
        \A j, k \in 1..Len(calls[c].history) :
            j # k => calls[c].history[j] # calls[c].history[k]

\* C18: taking the pending pairs in any order returns the same boolean as
\* taking them first-in first-out.
C18_OrderIndependent ==
    (Returned(1) /\ Returned(2) /\ Input(1) = Input(2))
    => Result(2) = Result(1)

C18_Witness ==
    /\ Returned(1)
    /\ Returned(2)
    /\ Input(1) = Input(2)
    /\ Result(2)
    /\ Len(calls[2].history) > 2
    /\ calls[2].history # calls[1].history

\* C19: neither the start state nor the terminal state accepts any
\* character.
C19_StartAcceptsNothing ==
    \A ch \in PatternAlphabet \cup InputAlphabet :
        /\ ~check_self(heap, start_state, ch)
        /\ ~check_self(heap, terminal_state, ch)

\* The positions of the pattern that hold a quantifier.
QuantifierAt(p) == {k \in 1..Len(p) : IsQuantifier(p[k])}
Max(S) == CHOOSE x \in S : \A y \in S : y <= x
\* How often t occurs in the sequence seq.
Count(seq, t) == Cardinality({k \in 1..Len(seq) : seq[k] = t})
RECURSIVE SumOver(_, _)
SumOver(seq, t) ==
    IF seq = <<>> THEN 0
    ELSE Count(Head(seq).next_states, t) + SumOver(Tail(seq), t)

\* C20: prev_state stays start_state; while the compiler runs,
\* start_state.next_states has at most one entry; once it has returned it
\* has exactly one: terminal_state for the empty pattern, else the first
\* atom if the pattern has no quantifier, else the Repeat state of the last
\* quantifier; and terminal_state is a successor in exactly one edge list.
C20_StartHasOneEdge ==
    /\ prev_state = start_state
    /\ cpc # "raised" => Len(heap[start_state].next_states) <= 1
    /\ cpc = "done" =>
          /\ heap[start_state].next_states =
                IF regex_expr = <<>> THEN <<terminal_state>>
                ELSE IF QuantifierAt(regex_expr) = {} THEN <<states[2]>>
                ELSE <<states[Max(QuantifierAt(regex_expr)) + 1]>>
          /\ QuantifierAt(regex_expr) # {} =>
                heap[states[Max(QuantifierAt(regex_expr)) + 1]].kind
                    \in {"StarState", "PlusState"}
          /\ SumOver(heap, terminal_state) = 1

C20_Witness ==
    /\ cpc = "done"
    /\ Len(regex_expr) = 3
    /\ regex_expr[2] = StarChar
    /\ IsLiteral(regex_expr[3])
    /\ heap[start_state].next_states = <<states[3]>>
====
